---- MODULE Spec2Model ----
(***************************************************************************)
(* ElementCache of openslides/utils/cache.py over a shared CacheProvider   *)
(* backend.  Every caller (a coroutine of some server process) owns one    *)
(* ElementCache instance; all instances share one backend.  Each provider  *)
(* call is one atomic step, and callers interleave between provider calls  *)
(* (the awaits of the source).                                             *)
(***************************************************************************)
EXTENDS Integers, FiniteSets, Sequences, TLC

\* ---------------------------------------------------------------- bounds
\* Number of change_elements batches that may be stamped in one behaviour.
MaxWrites == 2

Procs == {1, 2}
Users == {1}
\* Element ids of the one collection; element bodies.
Elems == {1, 2}
Bodies == {"A", "B"}
\* The bodies an element takes: element 1 has two versions, the others one.
BodiesOf(e) == IF e = 1 THEN Bodies ELSE {"A"}
\* The seed (start_time) instance p is constructed with: the instances
\* differ in their seeds, the first has the seed 0 of the test suites.
SeedOf(p) == 2 * (p - 1)

Null == "null"
Absent == "-"
Vals == Bodies \cup {Null}

\* ---------------------------------------------------------------- state
VARIABLES
    full_data,      \* FullDataStore: element id -> body, Null when not stored
    full_exists,    \* the FullDataStore has been initialised
    change_index,   \* ChangeIndex: set of <<ChangeId, element id>>
    counter,        \* the provider's ChangeId counter: {} or {n}
    restricted,     \* RestrictedDataStore[user]: element id -> body or Null
    user_cid,       \* sentinel "_config:change_id" of a user's store: {} or {n}
    locks,          \* names of the locks that are held
    visible,        \* permission filter: the elements a user may see
    loss,           \* history: what happened since an element was hidden
    start_time,     \* per instance: seed given at construction
    use_restricted, \* per instance: use_restricted_data_cache
    ensured,        \* per instance: self.ensured
    pc,             \* per caller: position in its current operation
    loc,            \* per caller: arguments and locals of the operation
    ret,            \* per caller: what the finished operation returned
    returned        \* ChangeIds returned by change_elements, in commit order

backend == <<full_data, full_exists, change_index, counter, restricted, user_cid, locks>>
config == <<start_time, use_restricted>>
perms == <<visible, loss>>
vars == <<full_data, full_exists, change_index, counter, restricted, user_cid, locks, visible, loss, start_time, use_restricted, ensured, pc, loc, ret, returned>>

EmptyData == [e \in Elems |-> Null]
NoBatch == [e \in Elems |-> Absent]

NoLoc == [op |-> "none", ens |-> FALSE, user |-> 0, id |-> 0, cid |-> 0, batch |-> NoBatch, ucid |-> 0, cur |-> 0, low |-> 0, won |-> FALSE, resync |-> FALSE, data |-> NoBatch, deleted |-> {}]

\* A result: err is "none" for a normal return.  data maps the returned
\* elements to their bodies (Absent: not returned), deleted is the list of
\* deleted element ids, cid the returned ChangeId.
NoRet == [err |-> "none", data |-> NoBatch, deleted |-> {}, cid |-> 0]

Ok(data, deleted, cid) == [err |-> "none", data |-> data, deleted |-> deleted, cid |-> cid]
Err(kind) == [NoRet EXCEPT !.err = kind]

MaxOf(S) == CHOOSE x \in S : \A y \in S : y <= x
MinOf(S) == CHOOSE x \in S : \A y \in S : x <= y

\* ------------------------------------------------------- CacheProvider
Scores == {pr[1] : pr \in change_index}

\* getCurrentChangeId: highest recorded ChangeId, or none.
ProviderCurrentChangeId == IF change_index = {} THEN {} ELSE {MaxOf(Scores)}

\* getLowestChangeId: lowest recorded ChangeId, or none.
ProviderLowestChangeId == IF change_index = {} THEN {} ELSE {MinOf(Scores)}

\* Last ChangeId recorded for an element.
LastChange(e) == MaxOf({pr[1] : pr \in {q \in change_index : q[2] = e}})

Stamped == {pr[2] : pr \in change_index}

InRange(e, change_id, max_change_id) ==
    /\ e \in Stamped
    /\ LastChange(e) >= change_id
    /\ (max_change_id = -1 \/ LastChange(e) <= max_change_id)

\* getDataSince on the store `store`: the elements whose last recorded
\* ChangeId lies in the range, with their bodies; those no longer stored
\* are reported as deleted.
DataSinceChanged(store, change_id, max_change_id) ==
    [e \in Elems |-> IF InRange(e, change_id, max_change_id) /\ store[e] # Null THEN store[e] ELSE Absent]

DataSinceDeleted(store, change_id, max_change_id) ==
    {e \in Elems : InRange(e, change_id, max_change_id) /\ store[e] = Null}

\* getAllData: snapshot of a namespace.
AllData(store) == [e \in Elems |-> IF store[e] # Null THEN store[e] ELSE Absent]

\* addChangedElements: the next ChangeId; the seed is used only when no
\* counter exists yet.
NextChangeId(seed) == IF counter = {} THEN seed ELSE MaxOf(counter) + 1

\* ------------------------------------------------------------- helpers
\* A finished call hands its result back before any caller goes on:
\* Return changes nothing but the caller's own pc, loc and ret.
NoneDone == \A q \in Procs : pc[q] # "done"

\* Caller p is at `label` and it is its turn.
At(p, label) == pc[p] = label /\ NoneDone

Idle(p) == At(p, "idle")

Finish(p, r) ==
    /\ pc' = [pc EXCEPT ![p] = "done"]
    /\ ret' = [ret EXCEPT ![p] = r]

Goto(p, label) ==
    /\ pc' = [pc EXCEPT ![p] = label]
    /\ UNCHANGED ret

\* Batches a caller may pass to change_elements: a non-empty dict from
\* element ids to a body or None.
Batches == {b \in [Elems -> Vals \cup {Absent}] : (\E e \in Elems : b[e] # Absent) /\ (\A e \in Elems : b[e] \in Bodies => b[e] \in BodiesOf(e))}

\* What get_elements of the cachables may enumerate at a build.
Sources == {m \in [Elems -> Vals] : \A e \in Elems : m[e] \in Bodies => m[e] \in BodiesOf(e)}

changed_elements(batch) == {e \in Elems : batch[e] \in Bodies}
NoDeletedElements(batch) == {}
deleted_elements(batch) == {e \in Elems : batch[e] = Null}
BatchKeys(batch) == {e \in Elems : batch[e] # Absent}

\* ------------------------------------------------------------ __init__
\* The sets the permission filter may show: element 1 comes and goes.
VisibleSets == {Elems, Elems \ {1}}

\* Every instance is constructed with the same use_restricted_data_cache,
\* one of `flags`; the permission filter shows every user one of `filters`.
Constructed(flags, filters) ==
    /\ full_data = EmptyData
    /\ full_exists = FALSE
    /\ change_index = {}
    /\ counter = {}
    /\ restricted = [u \in Users |-> EmptyData]
    /\ user_cid = [u \in Users |-> {}]
    /\ locks = {}
    /\ visible \in [Users -> filters]
    /\ loss = [u \in Users |-> [e \in Elems |-> "no"]]
    /\ start_time = [p \in Procs |-> SeedOf(p)]
    /\ use_restricted \in {[p \in Procs |-> b] : b \in flags}
    /\ ensured = [p \in Procs |-> FALSE]
    /\ pc = [p \in Procs |-> "idle"]
    /\ loc = [p \in Procs |-> NoLoc]
    /\ ret = [p \in Procs |-> NoRet]
    /\ returned = <<>>

Init == Constructed({TRUE}, {Elems})

\* -------------------------------------------------------- ensure_cache
\* Lock names are pairs; the build lock has no user.
BuildLock == <<"ensure_cache", 0>>

\* cache_exists = data_exists(); without reset and with an existing cache
\* the call only marks the instance ready.
ensure_cache(p, reset) ==
    /\ Idle(p)
    /\ loc' = [loc EXCEPT ![p] = [NoLoc EXCEPT !.op = "ensure_cache", !.ens = ensured[p]]]
    /\ IF reset \/ ~full_exists
       THEN /\ Goto(p, "ec_lock")
            /\ UNCHANGED ensured
       ELSE /\ ensured' = [ensured EXCEPT ![p] = TRUE]
            /\ Finish(p, NoRet)
    /\ UNCHANGED <<backend, perms, config, returned>>

\* set_lock("ensure_cache"): the winner builds, a loser waits.
ensure_cache_set_lock(p) ==
    /\ At(p, "ec_lock")
    /\ IF BuildLock \notin locks
       THEN /\ locks' = locks \cup {BuildLock}
            /\ Goto(p, "ec_build")
       ELSE /\ Goto(p, "ec_wait")
            /\ UNCHANGED locks
    /\ UNCHANGED <<full_data, full_exists, change_index, counter, restricted, user_cid, perms, config, ensured, loc, returned>>

\* The try block: enumerate every cachable's elements and reset_full_cache
\* with the mapping.  reset_full_cache replaces the FullDataStore and
\* empties the ChangeIndex.
ensure_cache_build(p, mapping) ==
    /\ At(p, "ec_build")
    /\ full_data' = mapping
    /\ full_exists' = TRUE
    /\ change_index' = {}
    /\ Goto(p, "ec_unlock")
    /\ UNCHANGED <<counter, restricted, user_cid, locks, perms, config, ensured, loc, returned>>

\* The try block raises (the enumeration or reset_full_cache failed):
\* nothing was written, the finally clause is next.
ensure_cache_build_fails(p) ==
    /\ At(p, "ec_build")
    /\ Goto(p, "ec_unlock_failed")
    /\ UNCHANGED <<backend, perms, config, ensured, loc, returned>>

\* finally: del_lock; then self.ensured = True.
ensure_cache_del_lock(p) ==
    /\ At(p, "ec_unlock")
    /\ locks' = locks \ {BuildLock}
    /\ ensured' = [ensured EXCEPT ![p] = TRUE]
    /\ Finish(p, NoRet)
    /\ UNCHANGED <<full_data, full_exists, change_index, counter, restricted, user_cid, perms, config, loc, returned>>

ensure_cache_raise_without_del_lock(p) ==
    /\ At(p, "ec_unlock_failed")
    /\ Finish(p, Err("build_failed"))
    /\ UNCHANGED <<backend, perms, config, ensured, loc, returned>>

\* finally: del_lock; then the exception propagates to the caller.
ensure_cache_del_lock_failed(p) ==
    /\ At(p, "ec_unlock_failed")
    /\ locks' = locks \ {BuildLock}
    /\ Finish(p, Err("build_failed"))
    /\ UNCHANGED <<full_data, full_exists, change_index, counter, restricted, user_cid, perms, config, ensured, loc, returned>>

\* A wait loop that never sees the lock free.
ensure_cache_wait_forever(p) ==
    /\ pc[p] = "ec_wait"
    /\ BuildLock \in locks
    /\ UNCHANGED vars

\* while get_lock(lock_name): sleep(0.01); then self.ensured = True.
\* A poll reads the lock only: it waits for no other caller's return.
ensure_cache_wait(p) ==
    /\ pc[p] = "ec_wait"
    /\ IF BuildLock \in locks
       THEN UNCHANGED <<pc, ret, ensured>>
       ELSE /\ ensured' = [ensured EXCEPT ![p] = TRUE]
            /\ Finish(p, NoRet)
    /\ UNCHANGED <<backend, perms, config, loc, returned>>

\* ----------------------------------------------------- change_elements
change_elements_unchecked(p, elements) ==
    /\ Idle(p)
    /\ Len(returned) < MaxWrites
    /\ loc' = [loc EXCEPT ![p] = [NoLoc EXCEPT !.op = "change_elements", !.ens = ensured[p], !.batch = elements]]
    /\ Goto(p, IF changed_elements(elements) # {} THEN "ce_add"
                ELSE IF deleted_elements(elements) # {} THEN "ce_del" ELSE "ce_stamp")
    /\ UNCHANGED <<backend, perms, config, ensured, returned>>

\* The ensured check and the partition of the batch; no provider call yet.
change_elements(p, elements) ==
    /\ Idle(p)
    /\ Len(returned) < MaxWrites
    /\ loc' = [loc EXCEPT ![p] = [NoLoc EXCEPT !.op = "change_elements", !.ens = ensured[p], !.batch = elements]]
    /\ IF ~ensured[p]
       THEN Finish(p, Err("init_order"))
       ELSE Goto(p, IF changed_elements(elements) # {} THEN "ce_add"
                    ELSE IF deleted_elements(elements) # {} THEN "ce_del" ELSE "ce_stamp")
    /\ UNCHANGED <<backend, perms, config, ensured, returned>>

\* add_elements(changed_elements)
change_elements_add(p) ==
    /\ At(p, "ce_add")
    /\ full_data' = [e \in Elems |-> IF e \in changed_elements(loc[p].batch) THEN loc[p].batch[e] ELSE full_data[e]]
    /\ full_exists' = TRUE
    /\ Goto(p, IF deleted_elements(loc[p].batch) # {} THEN "ce_del" ELSE "ce_stamp")
    /\ UNCHANGED <<change_index, counter, restricted, user_cid, locks, perms, config, ensured, loc, returned>>

\* del_elements(deleted_elements)
change_elements_del(p) ==
    /\ At(p, "ce_del")
    /\ full_data' = [e \in Elems |-> IF e \in deleted_elements(loc[p].batch) THEN Null ELSE full_data[e]]
    /\ Goto(p, "ce_stamp")
    /\ UNCHANGED <<full_exists, change_index, counter, restricted, user_cid, locks, perms, config, ensured, loc, returned>>

SeedAsResult(p, change_id) == start_time[p] + 1

\* What change_elements returns: the ChangeId add_changed_elements gave.
change_elements_result(p, change_id) == change_id

\* return add_changed_elements(self.start_time + 1, elements.keys())
change_elements_stamp(p) ==
    /\ At(p, "ce_stamp")
    /\ LET change_id == NextChangeId(start_time[p] + 1)
       IN /\ counter' = {change_id}
          /\ change_index' = change_index \cup {<<change_id, e>> : e \in BatchKeys(loc[p].batch)}
          /\ returned' = Append(returned, change_elements_result(p, change_id))
          /\ Finish(p, Ok(NoBatch, {}, change_elements_result(p, change_id)))
    /\ loss' = [u \in Users |-> [e \in Elems |-> IF e \in BatchKeys(loc[p].batch) /\ loss[u][e] \in {"hidden", "read"} THEN "stamped" ELSE loss[u][e]]]
    /\ UNCHANGED <<full_data, full_exists, restricted, user_cid, locks, visible, config, ensured, loc>>

\* ---------------------------------------------------- full-data reads
\* get_all_full_data: one get_all_data call.
get_all_full_data(p) ==
    /\ Idle(p)
    /\ loc' = [loc EXCEPT ![p] = [NoLoc EXCEPT !.op = "get_all_full_data", !.ens = ensured[p]]]
    /\ Finish(p, Ok(AllData(full_data), {}, 0))
    /\ UNCHANGED <<backend, perms, config, ensured, returned>>

BelowOrAtLowest(change_id, lowest_change_id) == change_id <= lowest_change_id

\* The low-water-mark test of get_full_data.
BelowLowest(change_id, lowest_change_id) == change_id < lowest_change_id

\* get_full_data up to and including get_lowest_change_id: "err" is the
\* RuntimeError raised, "none" when get_data_since is next.
FullDataCheck(change_id) ==
    IF ProviderLowestChangeId = {} THEN "no_change_id"
    ELSE IF BelowLowest(change_id, MinOf(Scores)) THEN "stale"
    ELSE "none"

\* get_full_data(change_id): change_id 0 is the full snapshot; otherwise
\* the lowest ChangeId is read and compared first.
get_full_data(p, change_id) ==
    /\ Idle(p)
    /\ loc' = [loc EXCEPT ![p] = [NoLoc EXCEPT !.op = "get_full_data", !.ens = ensured[p], !.cid = change_id, !.low = IF change_id = 0 \/ ProviderLowestChangeId = {} THEN 0 ELSE MinOf(Scores)]]
    /\ IF change_id = 0
       THEN Finish(p, Ok(AllData(full_data), {}, 0))
       ELSE IF FullDataCheck(change_id) # "none"
            THEN Finish(p, Err(FullDataCheck(change_id)))
            ELSE Goto(p, "gfd_since")
    /\ UNCHANGED <<backend, perms, config, ensured, returned>>

\* What get_full_data(change_id) returns when no other caller takes a step
\* during the call.
FullDataResult(change_id) ==
    IF change_id = 0 THEN Ok(AllData(full_data), {}, 0)
    ELSE IF FullDataCheck(change_id) # "none" THEN Err(FullDataCheck(change_id))
    ELSE Ok(DataSinceChanged(full_data, change_id, -1), DataSinceDeleted(full_data, change_id, -1), 0)

\* get_data_since(change_id, max_change_id=-1) on the full namespace.
get_full_data_since(p) ==
    /\ At(p, "gfd_since")
    /\ Finish(p, Ok(DataSinceChanged(full_data, loc[p].cid, -1), DataSinceDeleted(full_data, loc[p].cid, -1), 0))
    /\ UNCHANGED <<backend, perms, config, ensured, loc, returned>>


\* -------------------------------------------------------- del_user
\* del_restricted_data(user_id): the user's store and its sentinel go.
del_user(p, user_id) ==
    /\ Idle(p)
    /\ loc' = [loc EXCEPT ![p] = [NoLoc EXCEPT !.op = "del_user", !.ens = ensured[p], !.user = user_id]]
    /\ restricted' = [restricted EXCEPT ![user_id] = EmptyData]
    /\ user_cid' = [user_cid EXCEPT ![user_id] = {}]
    /\ Finish(p, NoRet)
    /\ UNCHANGED <<full_data, full_exists, change_index, counter, locks, perms, config, ensured, returned>>

\* ------------------------------------------- update_restricted_data
RefreshLock(user_id) == <<"restricted_data", user_id>>

\* get_current_change_id: the highest recorded ChangeId, self.start_time
\* when there is none.
get_current_change_id(p) == IF ProviderCurrentChangeId = {} THEN start_time[p] ELSE MaxOf(Scores)

\* Where a caller of update_restricted_data goes on when it returns.
AfterUpdate(p, l) ==
    IF l.op = "update_restricted_data" THEN Finish(p, NoRet)
    ELSE IF l.op = "get_element_restricted_data" THEN Goto(p, "gerd_read")
    ELSE IF l.op = "get_all_restricted_data" \/ l.cid = 0 THEN Goto(p, "gard_read")
    ELSE Goto(p, "grd_since")

\* The winner of set_lock enters the refresh, a loser polls the lock.
LockWon(lock_name) == lock_name \notin locks

\* update_restricted_data without the test of use_restricted_data_cache.
EnterUpdateWhenDisabled(p, l) ==
    IF ~ensured[p]
    THEN Finish(p, Err("init_order")) /\ UNCHANGED locks
    ELSE IF LockWon(RefreshLock(l.user))
    THEN Goto(p, "urd_get_cid") /\ locks' = locks \cup {RefreshLock(l.user)}
    ELSE Goto(p, "urd_wait") /\ UNCHANGED locks

\* update_restricted_data that goes on whatever set_lock returned.
EnterUpdateUnlocked(p, l) ==
    IF ~use_restricted[p]
    THEN Finish(p, NoRet) /\ UNCHANGED locks
    ELSE IF ~ensured[p]
    THEN Finish(p, Err("init_order")) /\ UNCHANGED locks
    ELSE Goto(p, "urd_get_cid") /\ locks' = locks \cup {RefreshLock(l.user)}

\* update_restricted_data up to and including set_lock, for the caller
\* whose locals are l.
EnterUpdate(p, l) ==
    IF ~use_restricted[p]
    THEN Finish(p, NoRet) /\ UNCHANGED locks
    ELSE IF ~ensured[p]
    THEN Finish(p, Err("init_order")) /\ UNCHANGED locks
    ELSE IF LockWon(RefreshLock(l.user))
    THEN Goto(p, "urd_get_cid") /\ locks' = locks \cup {RefreshLock(l.user)}
    ELSE Goto(p, "urd_wait") /\ UNCHANGED locks

update_restricted_data(p, user_id) ==
    /\ Idle(p)
    /\ LET l == [NoLoc EXCEPT !.op = "update_restricted_data", !.ens = ensured[p], !.user = user_id]
       IN /\ loc' = [loc EXCEPT ![p] = l]
          /\ EnterUpdate(p, l)
    /\ UNCHANGED <<full_data, full_exists, change_index, counter, restricted, user_cid, perms, config, ensured, returned>>

\* Inside `if set_lock(lock_name)`: value = get_change_id_user(user_id);
\* -1 when the store has none.
update_get_change_id_user(p) ==
    /\ At(p, "urd_get_cid")
    /\ loc' = [loc EXCEPT ![p].won = TRUE, ![p].ucid = IF user_cid[loc[p].user] = {} THEN -1 ELSE MaxOf(user_cid[loc[p].user])]
    /\ Goto(p, "urd_cur")
    /\ UNCHANGED <<backend, perms, config, ensured, returned>>

\* A test that refreshes a store that is already current.
update_get_current_again(p) ==
    /\ At(p, "urd_cur")
    /\ loc' = [loc EXCEPT ![p].cur = get_current_change_id(p)]
    /\ Goto(p, IF get_current_change_id(p) >= loc[p].ucid THEN "urd_full" ELSE "urd_unlock")
    /\ UNCHANGED <<backend, perms, config, ensured, returned>>

\* change_id = get_current_change_id(); if change_id > user_change_id
update_get_current(p) ==
    /\ At(p, "urd_cur")
    /\ loc' = [loc EXCEPT ![p].cur = get_current_change_id(p)]
    /\ Goto(p, IF get_current_change_id(p) > loc[p].ucid THEN "urd_full" ELSE "urd_unlock")
    /\ UNCHANGED <<backend, perms, config, ensured, returned>>

\* get_full_data(user_change_id + 1) up to its first provider call: the
\* snapshot for 0, else the low-water-mark test, whose RuntimeError is
\* caught.
update_get_full_data(p) ==
    /\ At(p, "urd_full")
    /\ IF loc[p].ucid + 1 = 0
       THEN /\ loc' = [loc EXCEPT ![p].data = AllData(full_data), ![p].deleted = {}]
            /\ Goto(p, "urd_restrict")
       ELSE /\ UNCHANGED loc
            /\ Goto(p, IF FullDataCheck(loc[p].ucid + 1) # "none" THEN "urd_resync" ELSE "urd_since")
    /\ UNCHANGED <<backend, perms, config, ensured, returned>>

\* get_data_since(user_change_id + 1)
update_get_data_since(p) ==
    /\ At(p, "urd_since")
    /\ loc' = [loc EXCEPT ![p].data = DataSinceChanged(full_data, loc[p].ucid + 1, -1), ![p].deleted = DataSinceDeleted(full_data, loc[p].ucid + 1, -1)]
    /\ Goto(p, "urd_restrict")
    /\ UNCHANGED <<backend, perms, config, ensured, returned>>

\* except RuntimeError: full_data_elements = get_all_full_data()
update_resync(p) ==
    /\ At(p, "urd_resync")
    /\ loc' = [loc EXCEPT ![p].data = AllData(full_data), ![p].deleted = {}, ![p].resync = TRUE]
    /\ Goto(p, "urd_purge")
    /\ UNCHANGED <<backend, perms, config, ensured, returned>>

\* A full resync that leaves the user's store as it is.
update_without_purge(p) ==
    /\ At(p, "urd_purge")
    /\ Goto(p, "urd_restrict")
    /\ UNCHANGED <<backend, perms, config, ensured, loc, returned>>

\* del_restricted_data(user_id)
update_purge(p) ==
    /\ At(p, "urd_purge")
    /\ restricted' = [restricted EXCEPT ![loc[p].user] = EmptyData]
    /\ user_cid' = [user_cid EXCEPT ![loc[p].user] = {}]
    /\ Goto(p, "urd_restrict")
    /\ UNCHANGED <<full_data, full_exists, change_index, counter, locks, perms, config, ensured, loc, returned>>

\* restrict_elements(user_id, full_data): the elements the user may see.
restrict_elements(user_id, data) == [e \in Elems |-> IF e \in visible[user_id] THEN data[e] ELSE Absent]

\* A refresh that forgets the ids the filter removed.
NoHiddenIds(user_id, data) == {}

\* full_data_ids - restricted_data_ids
HiddenIds(user_id, data) == {e \in Elems : data[e] # Absent /\ restrict_elements(user_id, data)[e] = Absent}

\* The loop over the collections: the mapping of the visible elements and
\* the ids the user can not see at all, appended to deleted_elements.
update_restrict(p) ==
    /\ At(p, "urd_restrict")
    /\ loc' = [loc EXCEPT ![p].data = restrict_elements(loc[p].user, loc[p].data), ![p].deleted = loc[p].deleted \cup HiddenIds(loc[p].user, loc[p].data)]
    /\ Goto(p, "urd_upsert")
    /\ UNCHANGED <<backend, perms, config, ensured, returned>>

\* restrict_elements raises: the exception leaves update_restricted_data.
update_restrict_fails(p) ==
    /\ At(p, "urd_restrict")
    /\ \E e \in Elems : loc[p].data[e] # Absent
    /\ Finish(p, Err("restrict_failed"))
    /\ UNCHANGED <<backend, perms, config, ensured, loc, returned>>

\* mapping["_config:change_id"] = str(change_id);
\* update_restricted_data(user_id, mapping)
update_upsert(p) ==
    /\ At(p, "urd_upsert")
    /\ restricted' = [restricted EXCEPT ![loc[p].user] = [e \in Elems |-> IF loc[p].data[e] # Absent THEN loc[p].data[e] ELSE @[e]]]
    /\ user_cid' = [user_cid EXCEPT ![loc[p].user] = {loc[p].cur}]
    /\ Goto(p, IF loc[p].deleted # {} THEN "urd_delete" ELSE "urd_unlock")
    /\ UNCHANGED <<full_data, full_exists, change_index, counter, locks, perms, config, ensured, loc, returned>>

\* del_elements(deleted_elements, user_id)
update_delete(p) ==
    /\ At(p, "urd_delete")
    /\ restricted' = [restricted EXCEPT ![loc[p].user] = [e \in Elems |-> IF e \in loc[p].deleted THEN Null ELSE @[e]]]
    /\ Goto(p, "urd_unlock")
    /\ UNCHANGED <<full_data, full_exists, change_index, counter, user_cid, locks, perms, config, ensured, loc, returned>>

\* del_lock(lock_name)
update_del_lock(p) ==
    /\ At(p, "urd_unlock")
    /\ locks' = locks \ {RefreshLock(loc[p].user)}
    /\ AfterUpdate(p, loc[p])
    /\ UNCHANGED <<full_data, full_exists, change_index, counter, restricted, user_cid, perms, config, ensured, loc, returned>>

\* while get_lock(lock_name): asyncio.sleep(0.01)
update_wait(p) ==
    /\ pc[p] = "urd_wait"
    /\ IF RefreshLock(loc[p].user) \in locks
       THEN UNCHANGED <<pc, ret>>
       ELSE AfterUpdate(p, loc[p])
    /\ UNCHANGED <<backend, perms, config, ensured, loc, returned>>

\* ------------------------------------------------ restricted reads
\* get_all_restricted_data, and get_restricted_data with change_id 0.
\* Without the restricted cache: get_all_full_data, then the filter.
\* With it: update_restricted_data, then the user's store.
AllRestrictedCall(p, l) ==
    /\ loc' = [loc EXCEPT ![p] = IF use_restricted[p] THEN l ELSE [l EXCEPT !.data = AllData(full_data)]]
    /\ IF use_restricted[p]
       THEN EnterUpdate(p, l)
       ELSE Goto(p, "gard_live") /\ UNCHANGED locks

get_all_restricted_data(p, user_id) ==
    /\ Idle(p)
    /\ AllRestrictedCall(p, [NoLoc EXCEPT !.op = "get_all_restricted_data", !.ens = ensured[p], !.user = user_id])
    /\ UNCHANGED <<full_data, full_exists, change_index, counter, restricted, user_cid, perms, config, ensured, returned>>

\* elements = restricter(user_id, full_data) for every collection
all_restricted_live(p) ==
    /\ At(p, "gard_live")
    /\ Finish(p, Ok(restrict_elements(loc[p].user, loc[p].data), {}, 0))
    /\ UNCHANGED <<backend, perms, config, ensured, loc, returned>>

\* get_all_data(user_id), without the "_config" keys
all_restricted_read(p) ==
    /\ At(p, "gard_read")
    /\ Finish(p, Ok(AllData(restricted[loc[p].user]), {}, 0))
    /\ UNCHANGED <<backend, perms, config, ensured, loc, returned>>

\* get_restricted_data that refreshes the user's store before it looks at
\* the lowest ChangeId.
get_restricted_data_unchecked(p, user_id, change_id) ==
    /\ Idle(p)
    /\ LET l == [NoLoc EXCEPT !.op = "get_restricted_data", !.ens = ensured[p], !.user = user_id, !.cid = change_id]
       IN IF change_id = 0
          THEN AllRestrictedCall(p, l)
          ELSE /\ loc' = [loc EXCEPT ![p] = l]
               /\ IF use_restricted[p]
                  THEN EnterUpdate(p, l)
                  ELSE Goto(p, "grd_live_since") /\ UNCHANGED locks
    /\ UNCHANGED <<full_data, full_exists, change_index, counter, restricted, user_cid, perms, config, ensured, returned>>

\* get_restricted_data(user_id, change_id).  Without the restricted cache
\* get_full_data(change_id) is next; with it the low-water-mark test comes
\* first and update_restricted_data after it.
get_restricted_data(p, user_id, change_id) ==
    /\ Idle(p)
    /\ LET l == [NoLoc EXCEPT !.op = "get_restricted_data", !.ens = ensured[p], !.user = user_id, !.cid = change_id]
       IN IF change_id = 0
          THEN AllRestrictedCall(p, l)
          ELSE /\ loc' = [loc EXCEPT ![p] = l]
               /\ UNCHANGED locks
               /\ IF FullDataCheck(change_id) # "none"
                  THEN Finish(p, Err(FullDataCheck(change_id)))
                  ELSE Goto(p, IF use_restricted[p] THEN "grd_update" ELSE "grd_live_since")
    /\ UNCHANGED <<full_data, full_exists, change_index, counter, restricted, user_cid, perms, config, ensured, returned>>

\* get_data_since of get_full_data(change_id, max_change_id)
restricted_live_since(p) ==
    /\ At(p, "grd_live_since")
    /\ loc' = [loc EXCEPT ![p].data = DataSinceChanged(full_data, loc[p].cid, -1), ![p].deleted = DataSinceDeleted(full_data, loc[p].cid, -1)]
    /\ Goto(p, "grd_live_restrict")
    /\ UNCHANGED <<backend, perms, config, ensured, returned>>

\* The filter of every changed collection; the ids it removed are added
\* to the deleted elements.
restricted_live_restrict(p) ==
    /\ At(p, "grd_live_restrict")
    /\ Finish(p, Ok(restrict_elements(loc[p].user, loc[p].data), loc[p].deleted \cup HiddenIds(loc[p].user, loc[p].data), 0))
    /\ UNCHANGED <<backend, perms, config, ensured, loc, returned>>

\* await self.update_restricted_data(user_id)
restricted_update(p) ==
    /\ At(p, "grd_update")
    /\ EnterUpdate(p, loc[p])
    /\ UNCHANGED <<full_data, full_exists, change_index, counter, restricted, user_cid, perms, config, ensured, loc, returned>>

\* get_data_since(change_id, user_id, max_change_id) on the user's store
restricted_since(p) ==
    /\ At(p, "grd_since")
    /\ Finish(p, Ok(DataSinceChanged(restricted[loc[p].user], loc[p].cid, -1), DataSinceDeleted(restricted[loc[p].user], loc[p].cid, -1), 0))
    /\ UNCHANGED <<backend, perms, config, ensured, loc, returned>>

\* One element as a result: its body under its id, or nothing (None).
OneElement(id, body) == [e \in Elems |-> IF e = id /\ body # Null THEN body ELSE Absent]

\* get_element_restricted_data(user_id, collection_string, id).  Without
\* the restricted cache get_element_full_data comes first, and None is
\* returned for an element that is not stored; with it
\* update_restricted_data is next.
get_element_restricted_data(p, user_id, id) ==
    /\ Idle(p)
    /\ LET l == [NoLoc EXCEPT !.op = "get_element_restricted_data", !.ens = ensured[p], !.user = user_id, !.id = id]
       IN IF use_restricted[p]
          THEN /\ loc' = [loc EXCEPT ![p] = l]
               /\ EnterUpdate(p, l)
          ELSE /\ loc' = [loc EXCEPT ![p] = [l EXCEPT !.data = OneElement(id, full_data[id])]]
               /\ UNCHANGED locks
               /\ IF full_data[id] = Null
                  THEN Finish(p, Ok(NoBatch, {}, 0))
                  ELSE Goto(p, "gerd_live")
    /\ UNCHANGED <<full_data, full_exists, change_index, counter, restricted, user_cid, perms, config, ensured, returned>>

\* restricted_data = restricter(user_id, [full_data]); its first entry or
\* None.
element_restricted_live(p) ==
    /\ At(p, "gerd_live")
    /\ Finish(p, Ok(restrict_elements(loc[p].user, loc[p].data), {}, 0))
    /\ UNCHANGED <<backend, perms, config, ensured, loc, returned>>

\* get_element(element_id, user_id) on the user's store
element_restricted_read(p) ==
    /\ At(p, "gerd_read")
    /\ Finish(p, Ok(OneElement(loc[p].id, restricted[loc[p].user][loc[p].id]), {}, 0))
    /\ UNCHANGED <<backend, perms, config, ensured, loc, returned>>

\* ------------------------------------------------------------- return
\* The caller takes the result; its next operation may start.  A restricted
\* read with a nonzero change_id that returned is noted in the history of
\* the hidden elements.
Return(p) ==
    /\ pc[p] = "done"
    /\ pc' = [pc EXCEPT ![p] = "idle"]
    /\ loc' = [loc EXCEPT ![p] = NoLoc]
    /\ ret' = [ret EXCEPT ![p] = NoRet]
    /\ loss' = IF loc[p].op = "get_restricted_data" /\ loc[p].cid # 0 /\ ret[p].err = "none"
               THEN [loss EXCEPT ![loc[p].user] = [e \in Elems |-> IF @[e] = "hidden" THEN "read" ELSE IF @[e] = "stamped" THEN "reported" ELSE @[e]]]
               ELSE loss
    /\ UNCHANGED <<backend, visible, config, ensured, returned>>

\* The permissions of a user change between two calls: the filter shows
\* another set.  An element of the full data that the filter showed and
\* shows no more is "hidden"; "stamped" once change_elements has stamped it
\* again, "read" or "reported" once the user's next restricted read with a
\* nonzero change_id has returned (before or after that stamp).
SetVisible(user_id, ids) ==
    /\ \A p \in Procs : pc[p] = "idle"
    /\ visible[user_id] # ids
    /\ visible' = [visible EXCEPT ![user_id] = ids]
    /\ loss' = [loss EXCEPT ![user_id] = [e \in Elems |-> IF e \in ids THEN "no"
                                                       ELSE IF e \in visible[user_id] /\ full_data[e] # Null THEN "hidden"
                                                       ELSE @[e]]]
    /\ UNCHANGED <<backend, config, ensured, pc, loc, ret, returned>>

\* ChangeIds a reader may ask for.
ChangeIdArgs == 0 .. (MaxOf({SeedOf(p) : p \in Procs}) + MaxWrites)

\* One step of caller p in a full-data operation: a call, or the next
\* provider call of the operation it is in.
FullStep(p) ==
    \/ \E reset \in BOOLEAN : ensure_cache(p, reset)
    \/ ensure_cache_set_lock(p)
    \/ \E mapping \in Sources : ensure_cache_build(p, mapping)
    \/ ensure_cache_build_fails(p)
    \/ ensure_cache_del_lock(p)
    \/ ensure_cache_del_lock_failed(p)
    \/ \E elements \in Batches : change_elements(p, elements)
    \/ change_elements_add(p)
    \/ change_elements_del(p)
    \/ change_elements_stamp(p)
    \/ get_all_full_data(p)
    \/ \E change_id \in ChangeIdArgs : get_full_data(p, change_id)
    \/ get_full_data_since(p)

\* One step of caller p in a restricted-data operation.
RestrictedStep(p) ==
    \/ \E user_id \in Users : del_user(p, user_id)
    \/ \E user_id \in Users : update_restricted_data(p, user_id)
    \/ update_get_change_id_user(p)
    \/ update_get_current(p)
    \/ update_get_full_data(p)
    \/ update_get_data_since(p)
    \/ update_resync(p)
    \/ update_purge(p)
    \/ update_restrict(p)
    \/ update_restrict_fails(p)
    \/ update_upsert(p)
    \/ update_delete(p)
    \/ update_del_lock(p)
    \/ update_wait(p)
    \/ \E user_id \in Users : get_all_restricted_data(p, user_id)
    \/ all_restricted_live(p)
    \/ all_restricted_read(p)
    \/ \E user_id \in Users, change_id \in ChangeIdArgs : get_restricted_data(p, user_id, change_id)
    \/ restricted_live_since(p)
    \/ restricted_live_restrict(p)
    \/ restricted_update(p)
    \/ restricted_since(p)

\* One step of caller p in a read of one restricted element.
ElementStep(p) ==
    \/ \E user_id \in Users, id \in Elems : get_element_restricted_data(p, user_id, id)
    \/ element_restricted_live(p)
    \/ element_restricted_read(p)

\* Builds, writes and full-data reads of concurrent callers, interleaved
\* at every provider call.
Next ==
    \E p \in Procs :
        \/ FullStep(p)
        \/ ensure_cache_wait(p)
        \/ Return(p)

Spec == Init /\ [][Next]_vars

\* Every operation, called by one caller, one call after the other, under
\* a permission filter that stays as it is.
SeqCaller == CHOOSE p \in Procs : \A q \in Procs : p <= q

SeqNext ==
    \/ FullStep(SeqCaller)
    \/ RestrictedStep(SeqCaller)
    \/ ElementStep(SeqCaller)
    \/ Return(SeqCaller)

SeqSpec == Constructed(BOOLEAN, VisibleSets) /\ [][SeqNext]_vars

\* The same with permissions that change between the calls.
VisNext ==
    \/ FullStep(SeqCaller)
    \/ RestrictedStep(SeqCaller)
    \/ Return(SeqCaller)
    \/ \E user_id \in Users, ids \in VisibleSets : SetVisible(user_id, ids)

VisSpec == Constructed(BOOLEAN, {Elems}) /\ [][VisNext]_vars


\* Builds that find every element in the database.
FullSources == {m \in Sources : \A e \in Elems : m[e] = "A"}

\* Batches that change element 1 only.
SingleBatches == {b \in Batches : BatchKeys(b) = {1}}

\* Refreshes of the restricted data by concurrent callers, interleaved at
\* every provider call with each other, with writes of element 1, with
\* snapshots of the user's store and with del_user; the cache is built
\* once, by whoever comes first, from a database that holds every element.
RefreshNext ==
    \E p \in Procs :
        \/ ensure_cache(p, FALSE)
        \/ ensure_cache_set_lock(p)
        \/ \E mapping \in FullSources : ensure_cache_build(p, mapping)
        \/ ensure_cache_del_lock(p)
        \/ ensure_cache_wait(p)
        \/ \E elements \in SingleBatches : change_elements(p, elements)
        \/ change_elements_add(p)
        \/ change_elements_del(p)
        \/ change_elements_stamp(p)
        \/ \E user_id \in Users : del_user(p, user_id)
        \/ \E user_id \in Users : update_restricted_data(p, user_id)
        \/ update_get_change_id_user(p)
        \/ update_get_current(p)
        \/ update_get_full_data(p)
        \/ update_get_data_since(p)
        \/ update_resync(p)
        \/ update_purge(p)
        \/ update_restrict(p)
        \/ update_restrict_fails(p)
        \/ update_upsert(p)
        \/ update_delete(p)
        \/ update_del_lock(p)
        \/ update_wait(p)
        \/ \E user_id \in Users : get_all_restricted_data(p, user_id)
        \/ all_restricted_read(p)
        \/ Return(p)

RefreshSpec == Init /\ [][RefreshNext]_vars

\* The next provider call of the operation caller p is in, or the return
\* of its result.
Progress(p) ==
    \/ ensure_cache_set_lock(p)
    \/ \E mapping \in FullSources : ensure_cache_build(p, mapping)
    \/ ensure_cache_build_fails(p)
    \/ ensure_cache_del_lock(p)
    \/ ensure_cache_del_lock_failed(p)
    \/ ensure_cache_wait(p)
    \/ update_get_change_id_user(p)
    \/ update_get_current(p)
    \/ update_get_full_data(p)
    \/ update_resync(p)
    \/ update_purge(p)
    \/ update_restrict(p)
    \/ update_upsert(p)
    \/ update_del_lock(p)
    \/ update_wait(p)
    \/ Return(p)

\* Builds and refreshes of concurrent callers that contend for the build
\* lock and for the refresh lock of a user, again and again.  A call that
\* has started goes on: the event loop runs every coroutine that is ready,
\* and a poll that finds the lock free ends the wait.  Nothing makes a
\* caller start a call, and nothing times a poll to fall between another
\* caller's del_lock and the next set_lock.
LockNext ==
    \E p \in Procs :
        \/ \E reset \in BOOLEAN : ensure_cache(p, reset)
        \/ \E user_id \in Users : update_restricted_data(p, user_id)
        \/ update_restrict_fails(p)
        \/ Progress(p)

LockSpec == Init /\ [][LockNext]_vars /\ \A p \in Procs : WF_vars(Progress(p))

\* No other caller is inside a call.
Alone(p) == \A q \in Procs \ {p} : pc[q] = "idle"

\* Calls of ensure_cache, change_elements and get_all_restricted_data that
\* start while no other call is in progress.
quiet_ensure_cache(p) == Alone(p) /\ ensure_cache(p, FALSE)

quiet_change_elements(p) == Alone(p) /\ \E elements \in Batches : change_elements(p, elements)

quiet_get_all_restricted_data(p) == Alone(p) /\ \E user_id \in Users : get_all_restricted_data(p, user_id)

\* One build, then writes and restricted snapshots by the instances that
\* share the backend, one call after the other, under a permission filter
\* that stays as it is and with a filter that does not fail.
QuietNext ==
    \E p \in Procs :
        \/ quiet_ensure_cache(p)
        \/ ensure_cache_set_lock(p)
        \/ \E mapping \in Sources : ensure_cache_build(p, mapping)
        \/ ensure_cache_del_lock(p)
        \/ quiet_change_elements(p)
        \/ change_elements_add(p)
        \/ change_elements_del(p)
        \/ change_elements_stamp(p)
        \/ quiet_get_all_restricted_data(p)
        \/ update_get_change_id_user(p)
        \/ update_get_current(p)
        \/ update_get_full_data(p)
        \/ update_get_data_since(p)
        \/ update_resync(p)
        \/ update_purge(p)
        \/ update_restrict(p)
        \/ update_upsert(p)
        \/ update_delete(p)
        \/ update_del_lock(p)
        \/ all_restricted_read(p)
        \/ Return(p)

QuietSpec == Constructed({TRUE}, VisibleSets) /\ [][QuietNext]_vars

\* ================================================================ claims
CallDone(p, op) == pc[p] = "done" /\ loc[p].op = op

\* C1: the ChangeIds returned by change_elements are strictly increasing
\* in commit order, whichever instances (with whichever seeds) made the
\* calls.
MonotonicChangeId ==
    \A i, j \in 1 .. Len(returned) : i < j => returned[i] < returned[j]

\* Instance 1 (seed 0) stamped the first batch, instance 2 (seed 2) has
\* just been handed the ChangeId of the second.
MonotonicChangeIdWitness ==
    /\ Len(returned) = 2
    /\ returned[1] = SeedOf(1) + 1
    /\ CallDone(2, "change_elements")
    /\ ret[2].err = "none"
    /\ ret[2].cid = returned[2]

\* C2: get_full_data with a nonzero change_id below the lowest ChangeId
\* raises the stale-read error and changes nothing in the backend; with
\* change_id equal to the lowest ChangeId it returns a delta.
LowWaterMarkRefusal ==
    [][\A p \in Procs :
        (pc[p] # "done" /\ pc'[p] = "done" /\ loc'[p].op = "get_full_data" /\ loc'[p].low # 0)
        => /\ loc'[p].cid < loc'[p].low => (ret'[p].err = "stale" /\ UNCHANGED backend)
           /\ loc'[p].cid = loc'[p].low => ret'[p].err = "none"]_vars

\* A get_full_data below the low-water mark has just raised.
LowWaterMarkRefusalWitness ==
    \E p \in Procs :
        /\ CallDone(p, "get_full_data")
        /\ loc[p].cid # 0
        /\ loc[p].cid < loc[p].low
        /\ ret[p].err = "stale"


\* The state a reader arrives at when it applies a delta: the upserts,
\* then the deletions.
ApplyDelta(state, delta) ==
    [e \in Elems |-> IF e \in delta.deleted THEN Absent
                     ELSE IF delta.data[e] # Absent THEN delta.data[e]
                     ELSE state[e]]

\* The deltas of get_full_data(lo), ..., get_full_data(hi), applied in
\* order to `state`.
RECURSIVE Replay(_, _, _)
Replay(state, lo, hi) ==
    IF lo > hi THEN state
    ELSE Replay(ApplyDelta(state, FullDataResult(lo)), lo + 1, hi)

\* The current ChangeId of the backend when one is recorded.
Current == MaxOf(Scores)
Lowest == MinOf(Scores)

NoWriteInFlight == \A p \in Procs : pc[p] \notin {"ce_add", "ce_del", "ce_stamp", "ec_build"}

\* C5 as stated: whenever every get_full_data(c), c from 1 to the current
\* ChangeId, returns a delta, the replay of these deltas from the empty
\* state is get_all_full_data().
ReplayFromOneIsSnapshot ==
    (/\ change_index # {}
     /\ NoWriteInFlight
     /\ \A c \in 1 .. Current : FullDataResult(c).err = "none")
    => Replay(NoBatch, 1, Current) = AllData(full_data)

\* C5, amended: every get_full_data(c), c from the lowest to the current
\* ChangeId, returns a delta, and the replay of these deltas from the
\* empty state is get_all_full_data() without the elements that have no
\* entry in the ChangeIndex (loaded by a build and never changed since).
ReplayIsChangedSnapshot ==
    change_index # {}
    => /\ \A c \in Lowest .. Current : FullDataResult(c).err = "none"
       /\ Replay(NoBatch, Lowest, Current) = [e \in Elems |-> IF e \in Stamped THEN AllData(full_data)[e] ELSE Absent]

\* Two ChangeIds are recorded, one element was changed and is stored, and
\* another is stored that was loaded by the build and never changed.
ReplayIsChangedSnapshotWitness ==
    /\ change_index # {}
    /\ Lowest < Current
    /\ NoWriteInFlight
    /\ \E e \in Stamped : full_data[e] # Null
    /\ \E e \in Elems \ Stamped : full_data[e] # Null

\* C6: right after change_elements has returned ChangeId C, with no other
\* call in between, get_full_data(C) returns every element the batch
\* upserted with the body of the batch and not as deleted, and lists every
\* element the batch mapped to None as deleted and not as changed; C is
\* greater than every ChangeId returned before.
WriteThenRead ==
    \A p \in Procs :
        (CallDone(p, "change_elements") /\ ret[p].err = "none")
        => /\ FullDataResult(ret[p].cid).err = "none"
           /\ \A e \in Elems :
                /\ loc[p].batch[e] \in Bodies => (FullDataResult(ret[p].cid).data[e] = loc[p].batch[e] /\ e \notin FullDataResult(ret[p].cid).deleted)
                /\ loc[p].batch[e] = Null => (e \in FullDataResult(ret[p].cid).deleted /\ FullDataResult(ret[p].cid).data[e] = Absent)
           /\ ret[p].cid = returned[Len(returned)]
           /\ \A i \in 1 .. (Len(returned) - 1) : returned[i] < ret[p].cid

\* The second batch, which maps element 1 to None, has just been stamped;
\* element 1 was stored before under the first ChangeId.
WriteThenReadWitness ==
    \E p \in Procs :
        /\ CallDone(p, "change_elements")
        /\ ret[p].err = "none"
        /\ Len(returned) = 2
        /\ loc[p].batch[1] = Null
        /\ <<returned[1], 1>> \in change_index

\* C7: change_elements on an instance whose ensure_cache was not called
\* raises the initialization-order error, stamps no ChangeId and leaves
\* the FullDataStore and the ChangeIndex as they are.
ChangeBeforeEnsureFails ==
    [][\A p \in Procs :
        (pc[p] = "idle" /\ pc'[p] # "idle" /\ loc'[p].op = "change_elements" /\ ~ensured[p])
        => /\ pc'[p] = "done"
           /\ ret'[p].err = "init_order"
           /\ UNCHANGED <<full_data, full_exists, change_index, counter, returned>>]_vars

\* change_elements has just raised on an instance that is not ensured,
\* over a cache another instance has built.
ChangeBeforeEnsureFailsWitness ==
    \E p \in Procs :
        /\ CallDone(p, "change_elements")
        /\ ~ensured[p]
        /\ ret[p].err = "init_order"
        /\ full_exists

\* C8: an operation called before ensure_cache raises the
\* initialization-order error instead of returning data.
ReadersAndWriters == {"change_elements", "get_full_data", "get_all_full_data", "get_restricted_data", "get_all_restricted_data", "update_restricted_data"}

InitOrderEnforced ==
    \A p \in Procs :
        (pc[p] = "done" /\ loc[p].op \in ReadersAndWriters /\ ~loc[p].ens)
        => ret[p].err = "init_order"

\* C9: the build lock is held exactly while one ensure_cache call is
\* between its successful set_lock and its del_lock: never two builders,
\* and no lock left behind by a build that succeeded or failed.
Builders == {p \in Procs : pc[p] \in {"ec_build", "ec_unlock", "ec_unlock_failed"}}

BuildLockReleased ==
    /\ Cardinality(Builders) <= 1
    /\ BuildLock \in locks <=> Builders # {}

\* A build has failed and its caller was handed the error; a second caller
\* that lost the race is still polling the lock, which is free again.
BuildLockReleasedWitness ==
    \E p, q \in Procs :
        /\ CallDone(p, "ensure_cache")
        /\ ret[p].err = "build_failed"
        /\ pc[q] = "ec_wait"
        /\ BuildLock \notin locks

\* C10: when ensure_cache returns normally the instance is ensured and the
\* FullDataStore exists.
EnsuredCacheExists ==
    \A p \in Procs :
        (CallDone(p, "ensure_cache") /\ ret[p].err = "none")
        => (ensured[p] /\ full_exists)


\* The steps of update_restricted_data between set_lock and del_lock.
RefreshLabels == {"urd_get_cid", "urd_cur", "urd_full", "urd_since", "urd_resync", "urd_purge", "urd_restrict", "urd_upsert", "urd_delete", "urd_unlock"}

\* The callers that are refreshing the restricted data of a user.
Refreshers(user_id) == {p \in Procs : pc[p] \in RefreshLabels /\ loc[p].user = user_id}

\* The callers that fetch, filter or store elements for a user.
Storing(user_id) == {p \in Refreshers(user_id) : pc[p] \notin {"urd_get_cid", "urd_cur", "urd_unlock"}}

\* The callers that lost set_lock and poll the lock of a user.
Waiting(user_id) == {p \in Procs : pc[p] = "urd_wait" /\ loc[p].user = user_id}

\* C3: at most one caller at a time refreshes the restricted data of a
\* user, holding the user's lock, and only when the store is behind the
\* current ChangeId; a caller that lost set_lock touches no store and
\* leaves its wait only once the lock is free.
OneRefreshPerUser ==
    /\ [](\A user_id \in Users :
            /\ Cardinality(Refreshers(user_id)) <= 1
            /\ Refreshers(user_id) # {} => RefreshLock(user_id) \in locks
            /\ \A p \in Storing(user_id) : loc[p].cur > loc[p].ucid)
    /\ [][\A user_id \in Users : \A p \in Waiting(user_id) :
            pc'[p] # "urd_wait" =>
                /\ RefreshLock(user_id) \notin locks
                /\ UNCHANGED <<restricted, user_cid, locks>>]_vars

\* Two callers refresh the same user: one stores the filtered elements
\* while the other waits for it.
OneRefreshPerUserWitness ==
    \E user_id \in Users : \E p \in Storing(user_id) :
        /\ pc[p] = "urd_delete"
        /\ Waiting(user_id) # {}

\* A restricted read with a nonzero change_id has returned its answer.
RestrictedReadDone(p) == CallDone(p, "get_restricted_data") /\ loc[p].cid # 0 /\ ret[p].err = "none"

\* A restricted snapshot has returned its answer.
SnapshotDone(p) ==
    /\ ret[p].err = "none"
    /\ \/ CallDone(p, "get_all_restricted_data")
       \/ CallDone(p, "get_restricted_data") /\ loc[p].cid = 0

FullReadDone(p) ==
    /\ ret[p].err = "none"
    /\ CallDone(p, "get_all_full_data") \/ CallDone(p, "get_full_data")

\* Writer q has applied a part of its batch only: its upserts without its
\* deletions, or its bodies without their stamp in the ChangeIndex.
BatchHalfApplied(q) ==
    \/ pc[q] = "ce_del" /\ changed_elements(loc[q].batch) # {}
    \/ pc[q] = "ce_stamp"

\* C11: no full-data read returns from a backend in which another caller's
\* batch is applied in part, or applied but not yet stamped.
BatchAtomicallyVisible ==
    \A p, q \in Procs : FullReadDone(p) => ~BatchHalfApplied(q)


\* C12: the FullDataStore changes only in steps taken while the build lock
\* is held, and the restricted store of a user (its sentinel included)
\* only in steps taken while the user's refresh lock is held.
MutationsUnderLock ==
    [][/\ full_data' # full_data => BuildLock \in locks
       /\ \A user_id \in Users :
            (restricted'[user_id] # restricted[user_id] \/ user_cid'[user_id] # user_cid[user_id])
                => RefreshLock(user_id) \in locks]_vars


\* No instance uses the restricted-data cache.
CachingDisabled == \A p \in Procs : ~use_restricted[p]

\* The restricted answer computed from the full data as it is and from the
\* permission filter, for the restricted read that caller p has finished.
LiveResult(p) ==
    LET user_id == loc[p].user
    IN  IF loc[p].op = "get_element_restricted_data"
        THEN Ok(restrict_elements(user_id, OneElement(loc[p].id, full_data[loc[p].id])), {}, 0)
        ELSE IF loc[p].op = "get_all_restricted_data" \/ loc[p].cid = 0
        THEN Ok(restrict_elements(user_id, AllData(full_data)), {}, 0)
        ELSE LET changed == DataSinceChanged(full_data, loc[p].cid, -1)
             IN  Ok(restrict_elements(user_id, changed),
                    DataSinceDeleted(full_data, loc[p].cid, -1) \cup HiddenIds(user_id, changed), 0)

RestrictedOps == {"update_restricted_data", "get_all_restricted_data", "get_restricted_data", "get_element_restricted_data"}

\* C13: with the restricted-data cache disabled no call changes a user's
\* restricted store or its sentinel or takes a refresh lock, and every
\* restricted read that returns an answer returns the filtered image of the
\* full data as it is.
DisabledCacheKeepsNoState ==
    /\ [](CachingDisabled =>
            /\ \A user_id \in Users : RefreshLock(user_id) \notin locks
            /\ \A p \in Procs :
                (pc[p] = "done" /\ ret[p].err = "none" /\ loc[p].op \in RestrictedOps \ {"update_restricted_data"})
                    => ret[p] = LiveResult(p))
    /\ [][CachingDisabled => UNCHANGED <<restricted, user_cid>>]_vars

\* With the cache disabled a delta has been returned that the filter cut
\* down: a stored element is reported deleted because the user may not see
\* it, and no restricted store exists.
DisabledCacheKeepsNoStateWitness ==
    /\ CachingDisabled
    /\ restricted = [u \in Users |-> EmptyData]
    /\ \E p \in Procs : \E e \in Elems :
        /\ CallDone(p, "get_restricted_data")
        /\ loc[p].cid # 0
        /\ ret[p].err = "none"
        /\ e \in ret[p].deleted
        /\ full_data[e] # Null
        /\ \E d \in Elems : ret[p].data[d] # Absent


\* The elements that no batch of RefreshSpec writes: every build stores them
\* with the same body, and they keep it.
Unwritten == Elems \ UNION {BatchKeys(b) : b \in SingleBatches}

\* C14: a snapshot returned by get_all_restricted_data is the filtered
\* image of the full data as of some ChangeId, never an empty or partly
\* rebuilt store; so it holds, with its body, every visible element that
\* the full data has held unchanged since the first build.
SnapshotIsFilteredImage ==
    \A p \in Procs :
        (CallDone(p, "get_all_restricted_data") /\ ret[p].err = "none") =>
            \A e \in visible[loc[p].user] \cap Unwritten :
                \A mapping \in FullSources : ret[p].data[e] = mapping[e]


\* The locks of the model.
LockNames == {BuildLock} \cup {RefreshLock(user_id) : user_id \in Users}

\* The lock caller p polls, if it is in a wait loop.
PolledBy(p) ==
    IF pc[p] = "ec_wait" THEN {BuildLock}
    ELSE IF pc[p] = "urd_wait" THEN {RefreshLock(loc[p].user)}
    ELSE {}

\* C15 as stated: if every lock that is taken is released again, every
\* caller in a wait loop leaves it, also while other callers keep taking
\* and releasing the lock.
WaitersAlwaysReturn ==
    \A p \in Procs : \A lock_name \in LockNames :
        (lock_name \in locks ~> lock_name \notin locks)
            => (lock_name \in PolledBy(p) ~> lock_name \notin PolledBy(p))

\* C15: if a lock is released and from some moment on not taken again,
\* every caller that polls it leaves its wait loop.
WaitersReturnOnceFree ==
    \A p \in Procs : \A lock_name \in LockNames :
        <>[](lock_name \notin locks)
            => (lock_name \in PolledBy(p) ~> lock_name \notin PolledBy(p))

\* A caller polls the build lock that the builder has just released: its
\* next poll ends the wait.
WaitersReturnOnceFreeWitness ==
    \E p \in Procs : \E q \in Procs \ {p} :
        /\ pc[p] = "ec_wait"
        /\ BuildLock \notin locks
        /\ CallDone(q, "ensure_cache")
        /\ full_exists


\* The permission-filtered image of the full data as a user's store holds
\* it.
FilteredImage(user_id) == [e \in Elems |-> IF e \in visible[user_id] THEN full_data[e] ELSE Null]

\* update_restricted_data of caller p has returned after it won the lock
\* and found the user's store behind the current ChangeId.
RefreshDone(p) ==
    /\ CallDone(p, "update_restricted_data")
    /\ ret[p].err = "none"
    /\ loc[p].won
    /\ loc[p].cur > loc[p].ucid

\* C16: after an update_restricted_data that fell back to the full resync,
\* the user's store is exactly the filtered image of the full data, and the
\* sentinel is the ChangeId the call read.
ResyncRebuildsStore ==
    \A p \in Procs :
        (RefreshDone(p) /\ loc[p].resync) =>
            /\ restricted[loc[p].user] = FilteredImage(loc[p].user)
            /\ user_cid[loc[p].user] = {loc[p].cur}

\* A resync has returned and left a store that holds one element and lacks
\* another, which the full data or the filter does not give the user.
ResyncRebuildsStoreWitness ==
    \E p \in Procs :
        /\ RefreshDone(p)
        /\ loc[p].resync
        /\ \E e \in Elems : restricted[loc[p].user][e] = Null /\ (full_data[e] = Null \/ e \notin visible[loc[p].user])
        /\ \E e \in Elems : restricted[loc[p].user][e] # Null


\* Caller p starts get_restricted_data in this step, with the restricted
\* cache and a nonzero change_id below the lowest ChangeId.
StartsStaleRestrictedRead(p) ==
    /\ pc[p] = "idle"
    /\ pc'[p] # "idle"
    /\ use_restricted[p]
    /\ loc'[p].op = "get_restricted_data"
    /\ loc'[p].cid # 0
    /\ change_index # {}
    /\ loc'[p].cid < MinOf(Scores)

\* C17: with the restricted cache, get_restricted_data with a nonzero
\* change_id below the lowest ChangeId ends with the stale-read error
\* before any refresh: the user's store, its sentinel and the locks are as
\* they were.
StaleRestrictedReadRefused ==
    [][\A p \in Procs : StartsStaleRestrictedRead(p) =>
            /\ pc'[p] = "done"
            /\ ret'[p].err = "stale"
            /\ UNCHANGED <<restricted, user_cid, locks>>]_vars

\* A stale restricted read was refused for a user whose store exists and
\* is behind the current ChangeId.
StaleRestrictedReadRefusedWitness ==
    \E p \in Procs :
        /\ CallDone(p, "get_restricted_data")
        /\ use_restricted[p]
        /\ ret[p].err = "stale"
        /\ loc[p].cid # 0
        /\ user_cid[loc[p].user] # {}
        /\ MaxOf(user_cid[loc[p].user]) < MaxOf(Scores)
        /\ RefreshLock(loc[p].user) \notin locks


\* update_restricted_data of caller p has returned after it won the lock
\* and found the user's store at or beyond the ChangeId it read.
RefreshSkipped(p) ==
    /\ CallDone(p, "update_restricted_data")
    /\ ret[p].err = "none"
    /\ loc[p].won
    /\ loc[p].cur <= loc[p].ucid

\* Caller p holds the lock and has not found the store behind: it is about
\* to read the sentinel or the current ChangeId, or it read them and found
\* nothing to do.
NothingToDo(p) ==
    \/ pc[p] \in {"urd_get_cid", "urd_cur"}
    \/ pc[p] \in RefreshLabels /\ loc[p].cur <= loc[p].ucid

\* C18: when an update_restricted_data that won the lock returns, the
\* sentinel of the user is the current ChangeId the call read, or it was
\* that or more already; in that case no step of the call changed the
\* user's store or the sentinel.
SentinelIsCurrentRead ==
    /\ [](\A p \in Procs :
            /\ RefreshDone(p) => user_cid[loc[p].user] = {loc[p].cur}
            /\ RefreshSkipped(p) => user_cid[loc[p].user] = {loc[p].ucid})
    /\ [][\A p \in Procs : NothingToDo(p) => UNCHANGED <<restricted, user_cid>>]_vars

\* A refresh has returned that picked up a change: the sentinel moved from
\* an older ChangeId to the one the call read.
SentinelIsCurrentReadWitness ==
    \E p \in Procs :
        /\ RefreshDone(p)
        /\ loc[p].ucid >= 0
        /\ ~loc[p].resync
        /\ user_cid[loc[p].user] = {loc[p].cur}
        /\ loc[p].cur = MaxOf(Scores)


\* C19: the refresh lock of a user is held only while a caller is between
\* set_lock and del_lock of update_restricted_data for that user; once the
\* call has ended, normally or with an exception, the lock is free.
RefreshLockReleased ==
    \A user_id \in Users : RefreshLock(user_id) \in locks => Refreshers(user_id) # {}


\* The sentinel of a user's store is at most the current ChangeId that
\* every instance reports.
SentinelAtMostCurrent ==
    \A user_id \in Users : \A p \in Procs :
        user_cid[user_id] # {} => MaxOf(user_cid[user_id]) <= get_current_change_id(p)

\* A refresh never moves the sentinel of a user's store back.
SentinelNeverDecreases ==
    \A user_id \in Users :
        (user_cid[user_id] # {} /\ user_cid'[user_id] # {}) => MaxOf(user_cid'[user_id]) >= MaxOf(user_cid[user_id])

\* A ChangeId that change_elements stamps is greater than the sentinel of
\* every user's store.
StampsAboveSentinel ==
    \A user_id \in Users :
        (change_index' # change_index /\ change_index' # {} /\ user_cid[user_id] # {})
            => \A pr \in change_index' \ change_index : pr[1] > MaxOf(user_cid[user_id])

\* C20: the sentinel of a user's store never exceeds the current ChangeId
\* reported by any instance and never decreases across refreshes, so that
\* every change stamped after a refresh has a greater ChangeId.
SentinelBehindCurrent ==
    /\ []SentinelAtMostCurrent
    /\ [][SentinelNeverDecreases /\ StampsAboveSentinel]_vars


\* What get_all_restricted_data returns without the restricted cache: the
\* permission filter applied to the full data as it is.
LiveSnapshot(user_id) == restrict_elements(user_id, AllData(full_data))

\* C21: under a fixed permission filter, after any sequence of
\* change_elements calls and with no call in progress, the snapshot that
\* get_all_restricted_data returns from the user's store equals the
\* snapshot it returns without the restricted cache.
CachedSnapshotIsLive ==
    \A p \in Procs :
        (CallDone(p, "get_all_restricted_data") /\ ret[p].err = "none" /\ use_restricted[p])
            => ret[p].data = LiveSnapshot(loc[p].user)

====
